---- MODULE Spec2Model ----
(***************************************************************************)
(* cargo-gooseboy (src/src/main.rs): resolution of the path-or-package     *)
(* argument, the cargo build, the packing of <name>.wasm and crate.json    *)
(* into <name>.gbcrate and the copy of the archive to a destination.       *)
(*                                                                         *)
(* The state is the filesystem (directories, files and their contents),    *)
(* the process environment, what `cargo metadata` reports, and the         *)
(* position and locals of `main`.  pack_crate and copy_crate are `pub fn`  *)
(* and are also exercised directly.                                        *)
(***************************************************************************)
EXTENDS Integers, Sequences, FiniteSets, TLC

\* Number of invocations (command lines or direct calls) in one behaviour.
MaxRuns == 1
\* Distinct non-empty byte contents a build can write: 1..MaxData.
MaxData == 2

\* Option::None of a string, and of a path
None == "<none>"

NoPath == <<"<none>">>

\* const TARGET
TARGET == "wasm32-unknown-unknown"

(***************************************************************************)
(* Paths are sequences of components; <<>> is the filesystem root.         *)
(***************************************************************************)
Join(p, c) == Append(p, c)

Parent(p) == SubSeq(p, 1, Len(p) - 1)

FileName(p) == p[Len(p)]

IsPrefix(p, q) == Len(p) <= Len(q) /\ SubSeq(q, 1, Len(p)) = p

\* env::current_dir(): the workspace root
Cwd == <<"ws">>

HomeDir == <<"home">>

\* metadata["target_directory"]
TargetDir == <<"ws", "target">>

\* The one symbolic link of the tree: ws/ln -> ws/a
LinkFrom == <<"ws", "ln">>

LinkTo == <<"ws", "a">>

\* A path with the symbolic link in it followed.
Resolve(p) ==
    IF IsPrefix(LinkFrom, p)
    THEN LinkTo \o SubSeq(p, Len(LinkFrom) + 1, Len(p))
    ELSE p

(***************************************************************************)
(* File contents.  A plain file is its bytes (0 = no bytes); an archive is *)
(* the entries written to it so far and whether its central directory has  *)
(* been written (zip.finish(), or the writer's drop).                      *)
(***************************************************************************)
Raw(d) == [kind |-> "raw", data |-> d]

Empty == Raw(0)

Zip(entries, closed) == [kind |-> "zip", entries |-> entries, closed |-> closed]

Entry(name, content) == [name |-> name, content |-> content]

VARIABLES
    dirs,       \* the directories that exist
    files,      \* the files that exist: path -> contents
    packages,   \* metadata["packages"]: sequence of [name, manifest_path]
    env,        \* the environment: [HOME, USERPROFILE], each a path or None
    cli,        \* the invocation being run (Cli::parse(), or a direct call)
    pc,         \* position in main
    loc,        \* main's locals: path_arg, package_name_opt, path, crate_path
    steps,      \* the steps of this invocation so far: sequence of [op, status]
    pre,        \* the filesystem when this invocation started
    runs        \* invocations started

vars == <<dirs, files, packages, env, cli, pc, loc, steps, pre, runs>>

(***************************************************************************)
(* Filesystem queries (they follow the symbolic link).                     *)
(***************************************************************************)
IsDirIn(ds, p) == Resolve(p) \in ds

IsFileIn(fs, p) == Resolve(p) \in DOMAIN fs

\* Path::exists
ExistsIn(ds, fs, p) == IsDirIn(ds, p) \/ IsFileIn(fs, p)

ReadIn(fs, p) == fs[Resolve(p)]

\* fs::canonicalize of an existing path
Canonicalize(p) == Resolve(p)

\* All prefixes of p, p included, the root included.
Ancestors(p) == { SubSeq(p, 1, n) : n \in 0..Len(p) }

\* fs::create_dir_all: fails when the path or an ancestor is a file.
CanCreateDirAll(fs, p) == \A q \in Ancestors(Resolve(p)) : q \notin DOMAIN fs

CreateDirAll(ds, p) == ds \cup Ancestors(Resolve(p))

\* A file written (created or truncated) with contents c.
WriteFile(fs, p, c) ==
    [q \in DOMAIN fs \cup {Resolve(p)} |-> IF q = Resolve(p) THEN c ELSE fs[q]]

\* File::create: the parent must be a directory, the path not a directory.
CanCreateFile(ds, fs, p) == IsDirIn(ds, Parent(p)) /\ ~IsDirIn(ds, p)

(***************************************************************************)
(* Results: Ok(value), Err (a Result::Err propagated by `?`) or a panic    *)
(* (unwrap/expect).                                                        *)
(***************************************************************************)
Ok(v) == [status |-> "ok", value |-> v]

Err == [status |-> "err", value |-> NoPath]

Panic == [status |-> "panic", value |-> NoPath]

(***************************************************************************)
(* cargo metadata --format-version 1 --no-deps, run in `path`.  The        *)
(* toolchain answers when it is started in a directory of the workspace    *)
(* and itself succeeds (toolchainOk, chosen by the environment).           *)
(***************************************************************************)
Metadata == [packages |-> packages, target_directory |-> TargetDir]

get_cargo_metadata(ds, path, toolchainOk) ==
    IF toolchainOk /\ IsDirIn(ds, path) /\ IsPrefix(Cwd, Resolve(path))
    THEN Ok(Metadata)
    ELSE Err

get_target_directory(metadata) == metadata.target_directory

\* Iterator::find over a sequence, given the indices that match: the index
\* of the first match, 0 if there is none.
FindFirst(matching) ==
    IF matching = {} THEN 0
    ELSE CHOOSE i \in matching : \A j \in matching : i <= j

Indices(s) == 1..Len(s)

\* The name of the package whose manifest is path/Cargo.toml, compared
\* canonicalized when the package's manifest path can be canonicalized and
\* as raw strings otherwise; None stands for the panic "package not found".
get_project_name(ds, fs, path, metadata) ==
    LET manifest == Join(path, "Cargo.toml")
        manifest_abs == IF ExistsIn(ds, fs, manifest)
                        THEN Canonicalize(manifest) ELSE manifest
        Match(p) == IF ExistsIn(ds, fs, p.manifest_path)
                    THEN Canonicalize(p.manifest_path) = manifest_abs
                    ELSE p.manifest_path = manifest
        i == FindFirst({ k \in Indices(metadata.packages) :
                           Match(metadata.packages[k]) })
    IN  IF i = 0 THEN None ELSE metadata.packages[i].name

Profile(release) == IF release THEN "release" ELSE "debug"

\* (filename, target_directory/TARGET/profile/filename) for a project name.
get_wasm_path(project_name, release, metadata) ==
    LET filename == project_name \o ".wasm"
    IN  [filename |-> filename,
         path |-> get_target_directory(metadata)
                      \o <<TARGET, Profile(release), filename>>]

(***************************************************************************)
(* Resolution of the path-or-package argument.                             *)
(***************************************************************************)
\* A command-line argument names a path relative to the current directory.
PathBufFrom(a) == Join(Cwd, a)

\* As resolve_path_and_package, without the p.exists() test.
resolve_path_and_package_noexists(ds, fs, arg) ==
    IF arg # None
    THEN [path |-> Canonicalize(Cwd), package |-> arg]
    ELSE [path |-> Canonicalize(Cwd), package |-> None]

resolve_path_and_package(ds, fs, arg) ==
    IF arg # None
    THEN IF ExistsIn(ds, fs, PathBufFrom(arg))
         THEN [path |-> Canonicalize(PathBufFrom(arg)), package |-> None]
         ELSE [path |-> Canonicalize(Cwd), package |-> arg]
    ELSE [path |-> Canonicalize(Cwd), package |-> None]

\* As resolve_project_dir, looking the manifest up by path even when a
\* package name is given.
resolve_project_dir_byPath(path, package_name, metadata) ==
    LET candidate == Join(path, "Cargo.toml")
        ByManifest(p) == p.manifest_path = candidate
        i == FindFirst({ k \in Indices(metadata.packages) :
                           ByManifest(metadata.packages[k]) })
        manifest == IF i # 0 THEN metadata.packages[i].manifest_path
                    ELSE Join(path, "Cargo.toml")
    IN  Parent(manifest)

resolve_project_dir(path, package_name, metadata) ==
    LET ByName(p) == p.name = package_name
        candidate == Join(path, "Cargo.toml")
        ByManifest(p) == p.manifest_path = candidate
        i == IF package_name # None
             THEN FindFirst({ k \in Indices(metadata.packages) :
                                ByName(metadata.packages[k]) })
             ELSE FindFirst({ k \in Indices(metadata.packages) :
                                ByManifest(metadata.packages[k]) })
        manifest == IF i # 0 THEN metadata.packages[i].manifest_path
                    ELSE Join(path, "Cargo.toml")
    IN  Parent(manifest)

\* fn determine_path
determine_path(path, default) == IF path # NoPath THEN path ELSE default

(***************************************************************************)
(* get_gooseboy_crates_folder: $HOME, else $USERPROFILE, joined with       *)
(* .gooseboy; the folder is created when it does not exist.                *)
(***************************************************************************)
get_gooseboy_crates_folder(ds, fs, e) ==
    LET home == IF e.HOME # NoPath THEN e.HOME ELSE e.USERPROFILE
        folder == Join(home, ".gooseboy")
    IN  IF home = NoPath
        THEN [res |-> Err, dirs |-> ds]
        ELSE IF ExistsIn(ds, fs, folder)
        THEN [res |-> Ok(folder), dirs |-> ds]
        ELSE IF CanCreateDirAll(fs, folder)
        THEN [res |-> Ok(folder), dirs |-> CreateDirAll(ds, folder)]
        ELSE [res |-> Err, dirs |-> ds]

(***************************************************************************)
(* build_project: `cargo build [--release] --target TARGET` run in `path`. *)
(* What cargo does is the environment's: out.ok is its exit status and     *)
(* out.wasm the bytes of the <name>.wasm it wrote (0: it wrote none, as    *)
(* for a package with no cdylib target).  It compiles the package whose    *)
(* manifest is in `path`, or every member when `path` holds none; a failed *)
(* build leaves the tree as it was.                                        *)
(***************************************************************************)
ProfileDir(release) == TargetDir \o <<TARGET, Profile(release)>>

Built(ds, fs, path) ==
    LET here == { i \in 1..Len(packages) :
                    Resolve(packages[i].manifest_path)
                        = Resolve(Join(path, "Cargo.toml")) }
    IN  IF here # {} THEN here ELSE 1..Len(packages)

CargoBuild(ds, fs, path, release, out) ==
    LET outputs == { Join(ProfileDir(release), packages[i].name \o ".wasm") :
                        i \in Built(ds, fs, path) }
        ds2 == IF out.ok THEN CreateDirAll(ds, ProfileDir(release)) ELSE ds
        fs2 == IF out.ok /\ out.wasm # 0
               THEN [q \in DOMAIN fs \cup outputs |->
                        IF q \in outputs THEN Raw(out.wasm) ELSE fs[q]]
               ELSE fs
    IN  [dirs |-> ds2, files |-> fs2]

\* fn run_command: Err when the command cannot be started in `path` or
\* exits with a failure status.
run_command(ds, path, out) ==
    IF IsDirIn(ds, path) /\ out.ok THEN Ok(NoPath) ELSE Err

build_project(ds, fs, path, release, out) ==
    LET ran == IsDirIn(ds, path) /\ IsPrefix(Cwd, Resolve(path))
        after == IF ran THEN CargoBuild(ds, fs, path, release, out)
                 ELSE [dirs |-> ds, files |-> fs]
    IN  [res |-> IF ran THEN run_command(ds, path, out) ELSE Err,
         dirs |-> after.dirs, files |-> after.files]

(***************************************************************************)
(* pack_crate.  The archive is created (truncated) before the two source   *)
(* files are opened; a panic while it is open leaves what was written so   *)
(* far, with the central directory written or not as the writer's drop     *)
(* runs or not (dropCloses: unwinding or aborting panics).                 *)
(***************************************************************************)
\* As pack_crate, opening the archive for appending instead of creating it:
\* the entries of an archive already there are kept.
pack_crate_append(ds, fs, path, release, toolchainOk, dropCloses) ==
    LET md == get_cargo_metadata(ds, path, toolchainOk)
        name == get_project_name(ds, fs, path, md.value)
        wasm == get_wasm_path(name, release, md.value)
        crate_path == Join(Parent(wasm.path), name \o ".gbcrate")
        json == Join(path, "crate.json")
        old == IF IsFileIn(fs, crate_path) /\ ReadIn(fs, crate_path).kind = "zip"
               THEN ReadIn(fs, crate_path).entries ELSE <<>>
    IN  IF md.status # "ok" THEN [res |-> Err, files |-> fs]
        ELSE IF name = None THEN [res |-> Panic, files |-> fs]
        ELSE IF ~CanCreateFile(ds, fs, crate_path)
        THEN [res |-> Panic, files |-> fs]
        ELSE IF ~IsFileIn(fs, wasm.path)
        THEN [res |-> Panic,
              files |-> WriteFile(fs, crate_path,
                            Zip(old \o <<Entry(wasm.filename, Empty)>>,
                                dropCloses))]
        ELSE IF ~IsFileIn(fs, json)
        THEN [res |-> Panic,
              files |-> WriteFile(fs, crate_path,
                            Zip(old \o <<Entry(wasm.filename,
                                                ReadIn(fs, wasm.path)),
                                          Entry("crate.json", Empty)>>,
                                dropCloses))]
        ELSE [res |-> Ok(crate_path),
              files |-> WriteFile(fs, crate_path,
                            Zip(old \o <<Entry(wasm.filename,
                                                ReadIn(fs, wasm.path)),
                                          Entry("crate.json", ReadIn(fs, json))>>,
                                TRUE))]

pack_crate(ds, fs, path, release, toolchainOk, dropCloses) ==
    LET md == get_cargo_metadata(ds, path, toolchainOk)
        name == get_project_name(ds, fs, path, md.value)
        wasm == get_wasm_path(name, release, md.value)
        crate_path == Join(Parent(wasm.path), name \o ".gbcrate")
        json == Join(path, "crate.json")
    IN  IF md.status # "ok" THEN [res |-> Err, files |-> fs]
        ELSE IF name = None THEN [res |-> Panic, files |-> fs]
        ELSE IF ~CanCreateFile(ds, fs, crate_path)
        THEN [res |-> Panic, files |-> fs]
        ELSE IF ~IsFileIn(fs, wasm.path)
        THEN [res |-> Panic,
              files |-> WriteFile(fs, crate_path,
                            Zip(<<Entry(wasm.filename, Empty)>>, dropCloses))]
        ELSE IF ~IsFileIn(fs, json)
        THEN [res |-> Panic,
              files |-> WriteFile(fs, crate_path,
                            Zip(<<Entry(wasm.filename, ReadIn(fs, wasm.path)),
                                  Entry("crate.json", Empty)>>, dropCloses))]
        ELSE [res |-> Ok(crate_path),
              files |-> WriteFile(fs, crate_path,
                            Zip(<<Entry(wasm.filename, ReadIn(fs, wasm.path)),
                                  Entry("crate.json", ReadIn(fs, json))>>, TRUE))]

(***************************************************************************)
(* copy_crate.  fs::copy opens the source, then creates or truncates the   *)
(* destination, then copies the source's bytes.                            *)
(***************************************************************************)
CopyFile(fs, from, to) ==
    LET t == WriteFile(fs, to, Empty)
    IN  WriteFile(t, to, ReadIn(t, from))

\* As copy_crate, creating the destination before the archive is looked for.
copy_crate_mkdirFirst(ds, fs, crate_path, destination_path) ==
    LET dst == Join(destination_path, FileName(crate_path))
        ds2 == CreateDirAll(ds, Parent(dst))
    IN  IF ~CanCreateDirAll(fs, Parent(dst))
        THEN [res |-> Err, dirs |-> ds, files |-> fs]
        ELSE IF ~ExistsIn(ds, fs, crate_path)
        THEN [res |-> Err, dirs |-> ds2, files |-> fs]
        ELSE IF ~IsFileIn(fs, crate_path) \/ IsDirIn(ds2, dst)
        THEN [res |-> Err, dirs |-> ds2, files |-> fs]
        ELSE [res |-> Ok(NoPath), dirs |-> ds2,
              files |-> CopyFile(fs, crate_path, dst)]

\* As copy_crate, copying onto the destination path itself instead of the
\* archive's file name inside it.
copy_crate_noFileName(ds, fs, crate_path, destination_path) ==
    LET dst == destination_path
        ds2 == CreateDirAll(ds, Parent(dst))
    IN  IF ~ExistsIn(ds, fs, crate_path)
        THEN [res |-> Err, dirs |-> ds, files |-> fs]
        ELSE IF ~CanCreateDirAll(fs, Parent(dst))
        THEN [res |-> Err, dirs |-> ds, files |-> fs]
        ELSE IF ~IsFileIn(fs, crate_path) \/ IsDirIn(ds2, dst)
        THEN [res |-> Err, dirs |-> ds2, files |-> fs]
        ELSE [res |-> Ok(NoPath), dirs |-> ds2,
              files |-> CopyFile(fs, crate_path, dst)]

copy_crate(ds, fs, crate_path, destination_path) ==
    LET dst == Join(destination_path, FileName(crate_path))
        ds2 == CreateDirAll(ds, Parent(dst))
    IN  IF ~ExistsIn(ds, fs, crate_path)
        THEN [res |-> Err, dirs |-> ds, files |-> fs]
        ELSE IF ~CanCreateDirAll(fs, Parent(dst))
        THEN [res |-> Err, dirs |-> ds, files |-> fs]
        ELSE IF ~IsFileIn(fs, crate_path) \/ IsDirIn(ds2, dst)
        THEN [res |-> Err, dirs |-> ds2, files |-> fs]
        ELSE [res |-> Ok(NoPath), dirs |-> ds2,
              files |-> CopyFile(fs, crate_path, dst)]

(***************************************************************************)
(* The workspaces, environments and command lines considered.              *)
(***************************************************************************)
PkgNames == {"a", "b"}

Pkg(n, d) == [name |-> n, manifest_path |-> Join(d, "Cargo.toml")]

\* A virtual workspace whose members are named after their directories; a
\* root package "a" with a member "b" in the directory a; a member reported
\* through the symbolic link, with "a" in the directory b; a single package.
Workspaces ==
    { <<Pkg("a", <<"ws", "a">>), Pkg("b", <<"ws", "b">>)>>,
      <<Pkg("a", Cwd), Pkg("b", <<"ws", "a">>)>>,
      <<Pkg("b", LinkFrom), Pkg("a", <<"ws", "b">>)>>,
      <<Pkg("b", Cwd)>> }

Envs == { [HOME |-> HomeDir, USERPROFILE |-> NoPath],
          [HOME |-> NoPath, USERPROFILE |-> HomeDir],
          [HOME |-> NoPath, USERPROFILE |-> NoPath] }

\* The optional path-or-package argument.
Args == {None, "a", "b", "ln"}

\* Where an earlier session installed an archive.
Installed == <<"inst">>

\* The optional destination directory: two levels that do not exist, the
\* directory of an earlier install, the debug profile directory (where the
\* archive itself is written), and a path below a regular file.
Destinations == { NoPath, <<"out", "deep">>, Installed, ProfileDir(FALSE),
                  <<"ws", "Cargo.toml", "sub">> }

\* Arguments of direct calls of pack_crate and copy_crate.
ProjectDirs == {Cwd, <<"ws", "a">>, <<"ws", "b">>}

ArchivePaths ==
    { Join(ProfileDir(r), n \o ".gbcrate") : r \in BOOLEAN, n \in PkgNames }

BuildOutcomes ==
    { o \in [ok : BOOLEAN, wasm : 0..MaxData] : ~o.ok => o.wasm = 0 }

\* crate.json of the i-th package: bytes distinct from any build output.
ManifestData(i) == MaxData + i

NoLocals == [path_arg |-> NoPath, package_name_opt |-> None, path |-> NoPath,
             crate_path |-> NoPath, folder |-> NoPath]

NoCli == [cmd |-> None, release |-> FALSE, package |-> None,
          destination_path |-> NoPath, no_copy |-> FALSE,
          path |-> NoPath, crate_path |-> NoPath]

\* What an earlier session (a debug build and pack of the first package,
\* installed into Installed) left behind: its artifact, its archive and the
\* installed copy.  The release profile has never been built.
OldWasm == Raw(MaxData + 3)

OldArchive ==
    Zip(<<Entry(packages[1].name \o ".wasm", OldWasm),
          Entry("crate.json", Raw(ManifestData(1)))>>, TRUE)

\* The installed copy is of a still earlier build.
OlderArchive ==
    Zip(<<Entry(packages[1].name \o ".wasm", Raw(MaxData + 4)),
          Entry("crate.json", Raw(ManifestData(1)))>>, TRUE)

Leftovers ==
    LET n == packages[1].name
    IN  (Join(ProfileDir(FALSE), n \o ".wasm") :> OldWasm)
        @@ (Join(ProfileDir(FALSE), n \o ".gbcrate") :> OldArchive)
        @@ (Join(Installed, n \o ".gbcrate") :> OlderArchive)

\* Cargo.toml of the workspace root and of every package, and crate.json of
\* the first package only: a second package has no crate.json to pack.
Sources ==
    [q \in { Join(Cwd, "Cargo.toml") }
           \cup { Resolve(packages[i].manifest_path) : i \in 1..Len(packages) }
           \cup { Resolve(Join(Parent(packages[1].manifest_path), "crate.json")) }
     |-> IF FileName(q) = "Cargo.toml" THEN Empty ELSE Raw(ManifestData(1))]

Init ==
    /\ packages \in Workspaces
    /\ env \in Envs
    /\ dirs = {<<>>, Cwd, HomeDir, Installed}
                \cup Ancestors(ProfileDir(FALSE))
                \cup { Resolve(Parent(packages[i].manifest_path)) :
                         i \in 1..Len(packages) }
    /\ files = Sources @@ Leftovers
    /\ cli = NoCli
    /\ pc = "idle"
    /\ loc = NoLocals
    /\ steps = <<>>
    /\ pre = [dirs |-> dirs, files |-> files]
    /\ runs = 0

(***************************************************************************)
(* main.                                                                   *)
(***************************************************************************)
Idle == pc \in {"idle", "done", "failed"}

Begin(c) ==
    /\ Idle
    /\ runs < MaxRuns
    /\ runs' = runs + 1
    /\ cli' = c
    /\ pre' = [dirs |-> dirs, files |-> files]

Log(op, res) == Append(steps, [op |-> op, status |-> res.status])

\* As NextPc, with a failed step not ending main.
NextPc_goOn(op, status, c) ==
    CASE op = "resolve" -> "build"
      [] op = "build"   -> IF c.cmd = "build" \/ c.no_copy
                           THEN "done" ELSE "pack"
      [] op = "pack"    -> "folder"
      [] op = "folder"  -> "copy"
      [] op = "copy"    -> "done"

\* Where main goes after a step: `?` and expect end it on a failure; the
\* Build subcommand ends after the build, and so does Pack under --no-copy.
NextPc(op, status, c) ==
    IF status # "ok" THEN "failed"
    ELSE CASE op = "resolve" -> "build"
           [] op = "build"   -> IF c.cmd = "build" \/ c.no_copy
                                THEN "done" ELSE "pack"
           [] op = "pack"    -> "folder"
           [] op = "folder"  -> "copy"
           [] op = "copy"    -> "done"

\* Commands::Build { release, package }
StartBuild ==
    \E release \in BOOLEAN, package \in Args :
        /\ Begin([NoCli EXCEPT !.cmd = "build", !.release = release,
                               !.package = package])
        /\ pc' = "resolve"
        /\ loc' = NoLocals
        /\ steps' = <<>>
        /\ UNCHANGED <<dirs, files, packages, env>>

\* Commands::Pack { release, no_copy, package, destination_path }
StartPack ==
    \E release \in BOOLEAN, package \in Args, no_copy \in BOOLEAN,
       destination_path \in Destinations :
        /\ Begin([NoCli EXCEPT !.cmd = "pack", !.release = release,
                               !.package = package, !.no_copy = no_copy,
                               !.destination_path = destination_path])
        /\ pc' = "resolve"
        /\ loc' = NoLocals
        /\ steps' = <<>>
        /\ UNCHANGED <<dirs, files, packages, env>>

\* resolve_path_and_package(package)?; resolve_project_dir(path_arg, ..)?
ResolveStep ==
    /\ pc = "resolve"
    /\ \E toolchainOk \in BOOLEAN :
         LET rp == resolve_path_and_package(dirs, files, cli.package)
             md == get_cargo_metadata(dirs, rp.path, toolchainOk)
         IN  /\ steps' = Log("resolve", md)
             /\ pc' = NextPc("resolve", md.status, cli)
             /\ loc' = IF md.status = "ok"
                       THEN [loc EXCEPT
                               !.path_arg = rp.path,
                               !.package_name_opt = rp.package,
                               !.path = resolve_project_dir(rp.path, rp.package,
                                                            md.value)]
                       ELSE loc
    /\ UNCHANGED <<dirs, files, packages, env, cli, pre, runs>>

\* build_project(path, release)?
BuildStep ==
    /\ pc = "build"
    /\ \E out \in BuildOutcomes :
         LET b == build_project(dirs, files, loc.path, cli.release, out)
         IN  /\ steps' = Log("build", b.res)
             /\ pc' = NextPc("build", b.res.status, cli)
             /\ dirs' = b.dirs
             /\ files' = b.files
    /\ UNCHANGED <<packages, env, cli, loc, pre, runs>>

\* pack_crate(path, release)?, the first argument of copy_crate
PackStep ==
    /\ pc = "pack"
    /\ \E toolchainOk \in BOOLEAN, dropCloses \in BOOLEAN :
         LET p == pack_crate(dirs, files, loc.path, cli.release,
                             toolchainOk, dropCloses)
         IN  /\ steps' = Log("pack", p.res)
             /\ pc' = NextPc("pack", p.res.status, cli)
             /\ files' = p.files
             /\ loc' = [loc EXCEPT !.crate_path = p.res.value]
    /\ UNCHANGED <<dirs, packages, env, cli, pre, runs>>

\* get_gooseboy_crates_folder().expect(..), inside the second argument
FolderStep ==
    /\ pc = "folder"
    /\ LET g == get_gooseboy_crates_folder(dirs, files, env)
           res == IF g.res.status = "ok" THEN g.res ELSE Panic
       IN  /\ steps' = Log("folder", res)
           /\ pc' = NextPc("folder", res.status, cli)
           /\ dirs' = g.dirs
           /\ loc' = [loc EXCEPT !.folder = res.value]
    /\ UNCHANGED <<files, packages, env, cli, pre, runs>>

\* copy_crate(.., determine_path(destination_path, folder))?
CopyStep ==
    /\ pc = "copy"
    /\ LET c == copy_crate(dirs, files, loc.crate_path,
                           determine_path(cli.destination_path, loc.folder))
       IN  /\ steps' = Log("copy", c.res)
           /\ pc' = NextPc("copy", c.res.status, cli)
           /\ dirs' = c.dirs
           /\ files' = c.files
    /\ UNCHANGED <<packages, env, cli, loc, pre, runs>>

(***************************************************************************)
(* pack_crate and copy_crate called on their own.                          *)
(***************************************************************************)
CallPackCrate ==
    \E path \in ProjectDirs, release \in BOOLEAN,
       toolchainOk \in BOOLEAN, dropCloses \in BOOLEAN :
        LET p == pack_crate(dirs, files, path, release, toolchainOk, dropCloses)
        IN  /\ Begin([NoCli EXCEPT !.cmd = "pack_crate", !.release = release,
                                   !.path = path])
            /\ steps' = <<[op |-> "pack", status |-> p.res.status]>>
            /\ pc' = IF p.res.status = "ok" THEN "done" ELSE "failed"
            /\ files' = p.files
            /\ loc' = [NoLocals EXCEPT !.path = path,
                                       !.crate_path = p.res.value]
            /\ UNCHANGED <<dirs, packages, env>>

CallCopyCrate ==
    \E crate_path \in ArchivePaths, destination_path \in Destinations \ {NoPath} :
        LET c == copy_crate(dirs, files, crate_path, destination_path)
        IN  /\ Begin([NoCli EXCEPT !.cmd = "copy_crate",
                                   !.crate_path = crate_path,
                                   !.destination_path = destination_path])
            /\ steps' = <<[op |-> "copy", status |-> c.res.status]>>
            /\ pc' = IF c.res.status = "ok" THEN "done" ELSE "failed"
            /\ dirs' = c.dirs
            /\ files' = c.files
            /\ loc' = [NoLocals EXCEPT !.crate_path = crate_path]
            /\ UNCHANGED <<packages, env>>

Next ==
    \/ StartBuild
    \/ StartPack
    \/ ResolveStep
    \/ BuildStep
    \/ PackStep
    \/ FolderStep
    \/ CopyStep
    \/ CallPackCrate
    \/ CallCopyCrate

Spec == Init /\ [][Next]_vars

(***************************************************************************)
(* Properties.                                                             *)
(***************************************************************************)
MainRun == cli.cmd \in {"build", "pack"}

Did(op) == \E i \in 1..Len(steps) : steps[i].op = op

Succeeded(op) ==
    \E i \in 1..Len(steps) : steps[i].op = op /\ steps[i].status = "ok"

Failed(op) ==
    \E i \in 1..Len(steps) : steps[i].op = op /\ steps[i].status # "ok"

LastStep == steps[Len(steps)]

\* {artifact_parent_dir}/{package_name}.gbcrate and the artifact itself
ArchiveOf(name, release) == Join(ProfileDir(release), name \o ".gbcrate")

ArtifactOf(name, release) == Join(ProfileDir(release), name \o ".wasm")

\* The files created, removed or rewritten since the invocation started.
ChangedFiles ==
    { q \in DOMAIN files \cup DOMAIN pre.files :
        \/ q \notin DOMAIN pre.files
        \/ q \notin DOMAIN files
        \/ files[q] # pre.files[q] }

\* The name of the package in the resolved project directory.
ProjectName == get_project_name(dirs, files, loc.path, Metadata)

\* C1: when pack runs on a project whose compiled binary is absent, it
\* fails and no archive exists at {artifact_parent_dir}/{name}.gbcrate
\* afterwards (none is created, none is left in a partial state).
C1_NoArchiveWithoutArtifact ==
    ( /\ steps # <<>>
      /\ LastStep.op = "pack"
      /\ ProjectName # None
      /\ ~IsFileIn(files, ArtifactOf(ProjectName, cli.release))
      /\ ArchiveOf(ProjectName, cli.release) \notin DOMAIN pre.files )
    => /\ LastStep.status # "ok"
       /\ ArchiveOf(ProjectName, cli.release) \notin DOMAIN files

\* The argument of this invocation is not an existing path: it is taken as
\* a package name.
ArgIsName ==
    /\ MainRun
    /\ cli.package # None
    /\ ~ExistsIn(pre.dirs, pre.files, PathBufFrom(cli.package))

\* C2: when the argument is not an existing path and no package of the
\* workspace has exactly that name, resolution fails; it returns no project
\* directory.
C2_UnknownPackageFails ==
    ( /\ ArgIsName
      /\ Did("resolve")
      /\ \A i \in 1..Len(packages) : packages[i].name # cli.package )
    => /\ ~Succeeded("resolve")
       /\ loc.path = NoPath

\* C3: when the argument is the name of a package P of the workspace and
\* not an existing path, and the metadata fetch succeeds, the project
\* directory is the parent of P's manifest path and the package name is
\* P's; the build and the pack that follow touch only P's artifact and
\* P's archive.
C3_ResolveByName ==
    \A i \in 1..Len(packages) :
        ( /\ ArgIsName
          /\ cli.package = packages[i].name
          /\ Succeeded("resolve") )
        => /\ loc.path = Parent(packages[i].manifest_path)
           /\ loc.package_name_opt = packages[i].name
           /\ \A q \in ChangedFiles :
                FileName(q) \in { packages[i].name \o ".wasm",
                                  packages[i].name \o ".gbcrate" }
           /\ Succeeded("pack")
                => loc.crate_path = ArchiveOf(packages[i].name, cli.release)

\* C3 happens: a package that is not the first of the metadata and not in
\* the current directory was selected by name and built.
C3_Witness ==
    \E i \in 1..Len(packages) :
        /\ ArgIsName
        /\ cli.package = packages[i].name
        /\ i > 1
        /\ Parent(packages[i].manifest_path) # Cwd
        /\ Succeeded("build")
        /\ ChangedFiles # {}

\* C4: when the argument is an existing path it is never taken as a
\* package name, even when a package has that name: the package is none
\* and the project directory is the canonicalized path.
C4_ExistingPathIsNotAName ==
    ( /\ MainRun
      /\ cli.package # None
      /\ ExistsIn(pre.dirs, pre.files, PathBufFrom(cli.package))
      /\ Succeeded("resolve") )
    => /\ loc.package_name_opt = None
       /\ loc.path = Canonicalize(PathBufFrom(cli.package))

\* C4 happens: the argument is an existing path and also the name of a
\* package whose manifest is in another directory.
C4_Witness ==
    /\ MainRun
    /\ cli.package # None
    /\ ExistsIn(pre.dirs, pre.files, PathBufFrom(cli.package))
    /\ Succeeded("resolve")
    /\ \E i \in 1..Len(packages) :
         /\ packages[i].name = cli.package
         /\ Resolve(Parent(packages[i].manifest_path))
              # Canonicalize(PathBufFrom(cli.package))

\* pack_crate has just returned Ok.
JustPacked == steps # <<>> /\ LastStep.op = "pack" /\ LastStep.status = "ok"

\* C5: after a successful pack the archive, at
\* {artifact_parent_dir}/{name}.gbcrate, holds exactly two entries, first
\* {name}.wasm then crate.json, with the bytes of the compiled binary and of
\* project_directory/crate.json; whatever was at that path before is gone.
C5_PackRoundTrip ==
    JustPacked
    => /\ ProjectName # None
       /\ loc.crate_path = ArchiveOf(ProjectName, cli.release)
       /\ IsFileIn(files, loc.crate_path)
       /\ ReadIn(files, loc.crate_path) =
            Zip(<<Entry(ProjectName \o ".wasm",
                        ReadIn(files, ArtifactOf(ProjectName, cli.release))),
                  Entry("crate.json",
                        ReadIn(files, Join(loc.path, "crate.json")))>>, TRUE)

\* C5 happens: a pack succeeded over an archive that was already there and
\* held other contents.
C5_Witness ==
    /\ JustPacked
    /\ IsFileIn(pre.files, loc.crate_path)
    /\ ReadIn(pre.files, loc.crate_path) # ReadIn(files, loc.crate_path)

\* A direct call of copy_crate has returned.
Installing == cli.cmd = "copy_crate" /\ pc \in {"done", "failed"}

\* C6: install of an archive path that does not exist fails and leaves the
\* filesystem as it was: no directory is created, no file written.
C6_InstallOfMissingArchive ==
    ( /\ Installing
      /\ ~ExistsIn(pre.dirs, pre.files, cli.crate_path) )
    => /\ pc = "failed"
       /\ dirs = pre.dirs
       /\ files = pre.files

\* C6 happens: the archive is missing and so is the destination directory.
C6_Witness ==
    /\ Installing
    /\ ~ExistsIn(pre.dirs, pre.files, cli.crate_path)
    /\ ~ExistsIn(pre.dirs, pre.files, cli.destination_path)
    /\ CanCreateDirAll(pre.files, cli.destination_path)

C8_PackAlwaysBundles ==
    (cli.cmd = "pack" /\ pc = "done")
    => /\ Succeeded("pack")
       /\ ProjectName # None
       /\ IsFileIn(files, ArchiveOf(ProjectName, cli.release))

\* The order of the steps of the pack subcommand; the default folder is
\* looked up as part of the install.
PackOrder == <<"resolve", "build", "pack", "folder", "copy">>

\* The profile directories, where the build and the pack write.
InProfileDir(q) == \E r \in BOOLEAN : IsPrefix(ProfileDir(r), q)

\* C9: the pack subcommand runs resolve, build, pack, install in that
\* order, each only after the one before succeeded; an error ends the run;
\* when resolution or the build fails no archive is created or overwritten
\* and nothing is installed; when packing fails nothing is copied to the
\* destination.
C9_StepsInOrder ==
    cli.cmd = "pack"
    => /\ \A i \in 1..Len(steps) : steps[i].op = PackOrder[i]
       /\ \A i \in 1..(Len(steps) - 1) : steps[i].status = "ok"
       /\ (\E i \in 1..Len(steps) : steps[i].status # "ok") => pc = "failed"
       /\ (Failed("resolve") \/ Failed("build"))
            => /\ \A q \in ChangedFiles : FileName(q) \notin
                     { n \o ".gbcrate" : n \in PkgNames }
               /\ \A q \in ChangedFiles : InProfileDir(q)
       /\ Failed("pack")
            => /\ \A q \in ChangedFiles : InProfileDir(q)
               /\ \A d \in dirs \ pre.dirs : InProfileDir(d)
               /\ ~Did("copy")

\* C9 happens: the pack step of a pack run that was to be installed failed
\* and left something behind.
C9_Witness ==
    /\ cli.cmd = "pack"
    /\ ~cli.no_copy
    /\ pc = "failed"
    /\ Failed("pack")
    /\ ChangedFiles # {}

\* C10: with an explicit destination directory the pack subcommand does
\* not depend on HOME/USERPROFILE and neither creates nor writes the
\* default install directory.
C10_ExplicitDestinationIgnoresHome ==
    (cli.cmd = "pack" /\ cli.destination_path # NoPath)
    => /\ ~Failed("folder")
       /\ \A d \in dirs \ pre.dirs : ~IsPrefix(Join(HomeDir, ".gooseboy"), d)

====
